---- MODULE Spec2Model ----
(***************************************************************************)
(* A model of the pyomatting alpha-matting engine: the threshold-mode and  *)
(* entropy-mode trimap builders, the Laplacian cache, the reduced          *)
(* closed-form solve and the two host pipelines with their progress ticks. *)
(*                                                                         *)
(* Pixel values are integers in units of 1/255 (a byte b stands for the    *)
(* float b/255), so 0.1 is 25.5 and 0.9 is 229.5; comparisons with them    *)
(* are written cross-multiplied.  An H x W array is a function on the      *)
(* raveled indices 0..H*W-1 (row-major, p = r*W + c).                      *)
(***************************************************************************)
EXTENDS Integers, Sequences, FiniteSets, TLC

(* ------------------------------ bounds -------------------------------- *)

\* threshold-mode / entropy-mode grid
GridH == 2
GridW == 3
\* largest erode_structure_size explored in the threshold-mode specification
MaxErode == 2
\* matting inputs: the first NVary + 1 pixels of an array are free, the rest
\* repeat the last free one; a solution vector has NVary free entries
NVary == 2

(* ------------------------- array helpers ------------------------------ *)

Pix(h, w) == 0 .. (h * w - 1)

RowOf(p, w) == p \div w

ColOf(p, w) == p % w

Inside(r, c, h, w) == r >= 0 /\ r < h /\ c >= 0 /\ c < w

\* the 4-neighbourhood relation on raveled indices
Adjacent4(p, q, w) ==
    \/ RowOf(p, w) = RowOf(q, w) /\ (ColOf(p, w) - ColOf(q, w)) \in {-1, 1}
    \/ ColOf(p, w) = ColOf(q, w) /\ (RowOf(p, w) - RowOf(q, w)) \in {-1, 1}

(* --------------------- threshold-mode trimap -------------------------- *)

\* np.ones((k, k)): offsets of a k x k structure about its centre k // 2
SquareStructure(k) ==
    { <<dr, dc>> : dr \in (0 - (k \div 2)) .. (k - 1 - (k \div 2)),
                   dc \in (0 - (k \div 2)) .. (k - 1 - (k \div 2)) }

\* structure=None: scipy's default, the 3 x 3 cross of connectivity 1
CrossStructure == { <<0, 0>>, <<-1, 0>>, <<1, 0>>, <<0, -1>>, <<0, 1>> }

ErodeStructure(k) == IF k > 0 THEN SquareStructure(k) ELSE CrossStructure

\* foreground_threshold=240
FgThresholdDefault == 240

\* background_threshold=10
BgThresholdDefault == 10

\* erode_structure_size=10
ErodeDefault == 10

\* a mutant of BinaryErosion: no erosion at all
BinaryErosionIdentity(S, h, w, structure, border_value) == S

\* a mutant of BinaryErosion: one covered position suffices (a dilation)
BinaryErosionAny(S, h, w, structure, border_value) ==
    { p \in Pix(h, w) :
        \E o \in structure :
            LET r == RowOf(p, w) + o[1]
                c == ColOf(p, w) + o[2]
            IN  IF Inside(r, c, h, w) THEN (r * w + c) \in S
                                      ELSE border_value = 1 }

\* the erosion as alpha_matting_cutout_rembg calls it
\* scipy.ndimage.binary_erosion: p survives iff the structure placed on p
\* lies in S, a position outside the array counting as border_value
BinaryErosion(S, h, w, structure, border_value) ==
    { p \in Pix(h, w) :
        \A o \in structure :
            LET r == RowOf(p, w) + o[1]
                c == ColOf(p, w) + o[2]
            IN  IF Inside(r, c, h, w) THEN (r * w + c) \in S
                                      ELSE border_value = 1 }

\* the trimap of alpha_matting_cutout_rembg
ThresholdTrimap(m, h, w, fgT, bgT, k) ==
    LET is_foreground == { p \in Pix(h, w) : m[p] > fgT }
        is_background == { p \in Pix(h, w) : m[p] < bgT }
        ef == BinaryErosion(is_foreground, h, w, ErodeStructure(k), 0)
        eb == BinaryErosion(is_background, h, w, ErodeStructure(k), 1)
    IN  [p \in Pix(h, w) |->
            IF p \in eb THEN 0 ELSE IF p \in ef THEN 255 ELSE 128]

(* ----------------------- entropy-mode trimap ------------------------- *)

\* mid_band = 0.2, in tenths
MidBandTenths == 2

\* band_ratio = 0.01, in hundredths
BandRatioPct == 1

\* the label image of entropy_trimap: 2 = fg, 1 = bg, 0 = unknown
EntropyLabel(prob, h, w) ==
    [p \in Pix(h, w) |->
        IF 10 * prob[p] >= (5 + MidBandTenths) * 255 THEN 2
        ELSE IF 10 * prob[p] <= (5 - MidBandTenths) * 255 THEN 1
        ELSE 0]

\* cv2.Canny marks a pixel only where the Sobel gradient of the label image
\* is non-zero, so only where its 3 x 3 neighbourhood is not constant; which
\* of those pixels survive thinning and hysteresis is left open
CannyCandidates(label, h, w) ==
    { p \in Pix(h, w) :
        \E q \in Pix(h, w) :
            /\ (RowOf(p, w) - RowOf(q, w)) \in {-1, 0, 1}
            /\ (ColOf(p, w) - ColOf(q, w)) \in {-1, 0, 1}
            /\ label[q] # label[p] }

\* Python's round() of n / 100 (ties to even)
RoundPct(n) ==
    LET f == n \div 100
        r == n % 100
    IN  IF r > 50 \/ (r = 50 /\ f % 2 = 1) THEN f + 1 ELSE f

BandPx(h, w) ==
    LET m == IF h < w THEN h ELSE w
        b == RoundPct(m * BandRatioPct)
    IN  IF b > 1 THEN b ELSE 1

\* cv2.getStructuringElement(MORPH_ELLIPSE, (2b+1, 2b+1)); for b = 1 the
\* 3 x 3 ellipse is the cross, larger ones are modelled by the city-block disc
EllipseStructure(b) ==
    { <<dr, dc>> \in ((0 - b) .. b) \X ((0 - b) .. b) :
        (IF dr < 0 THEN 0 - dr ELSE dr) + (IF dc < 0 THEN 0 - dc ELSE dc) <= b }

\* cv2.dilate(edges, k) > 0
Dilate(E, h, w, structure) ==
    { p \in Pix(h, w) :
        \E o \in structure :
            LET r == RowOf(p, w) + o[1]
                c == ColOf(p, w) + o[2]
            IN  Inside(r, c, h, w) /\ (r * w + c) \in E }

\* the dilated band that entropy_trimap ORs into its local `unknown`
EntropyBand(edges, h, w) == Dilate(edges, h, w, EllipseStructure(BandPx(h, w)))

\* entropy_trimap: `unknown` (widened by the band) is computed and never
\* read; the trimap is filled from bg and fg alone
entropy_trimap(prob, h, w, edges) ==
    LET label == EntropyLabel(prob, h, w)
        fg == { p \in Pix(h, w) : label[p] = 2 }
        bg == { p \in Pix(h, w) : label[p] = 1 }
        unknown == ((Pix(h, w) \ fg) \ bg) \cup EntropyBand(edges, h, w)
    IN  [p \in Pix(h, w) |->
            IF p \in fg THEN 255 ELSE IF p \in bg THEN 0 ELSE 128]

(* -------------------------- Laplacian cache -------------------------- *)

\* `if len(_laplacian_cache) < 5`
CacheLimit == 5

\* win_rad=1
WinRadDefault == 1

\* eps=1e-7
EpsDefault == "1e-7"

\* mask=None
NoMask == [given |-> FALSE, shape |-> <<>>, on |-> {}]

\* a boolean mask of shape <<mh, mw>>, true on the raveled indices `on`
MaskOf(mh, mw, on) == [given |-> TRUE, shape |-> <<mh, mw>>, on |-> on]

_cache_key(shape, mask_shape, eps, win_rad) == <<shape, mask_shape, eps, win_rad>>

\* _rolling_block: the windows of an h x w image, by their top-left corner
Windows(h, w, r) == (0 .. (h - 2 * r - 1)) \X (0 .. (w - 2 * r - 1))

\* win_inds[y, x, :]: the raveled indices of one window, row-major
WinInds(y, x, w, r) ==
    [k \in 0 .. ((2 * r + 1) * (2 * r + 1) - 1) |->
        (y + (k \div (2 * r + 1))) * w + (x + (k % (2 * r + 1)))]

WinPix(y, x, w, r) ==
    { WinInds(y, x, w, r)[k] : k \in 0 .. ((2 * r + 1) * (2 * r + 1) - 1) }

\* a mutant of KeptWindows: the mask is not dilated and a window is kept when
\* its centre pixel is in the mask
KeptWindowsCentreInMask(h, w, m, r) ==
    IF ~m.given THEN Windows(h, w, r)
    ELSE { yx \in Windows(h, w, r) :
             WinInds(yx[1], yx[2], w, r)[2 * r * (r + 1)] \in m.on }

\* the windows compute_laplacian keeps: all of them without a mask; with one,
\* those whose indices, read in the raveled dilated mask, meet a true pixel
KeptWindows(h, w, m, r) ==
    IF ~m.given THEN Windows(h, w, r)
    ELSE LET dil == Dilate(m.on, m.shape[1], m.shape[2], SquareStructure(2 * r + 1))
         IN  { yx \in Windows(h, w, r) : WinPix(yx[1], yx[2], w, r) \cap dil # {} }

\* win_size
WinSize(r) == (2 * r + 1) * (2 * r + 1)

\* the rows of win_inds after lines 35-43: the kept windows in the row-major
\* order of their corners, which boolean indexing and reshape both keep
KeptWinSeq(h, w, m, r) ==
    LET K == KeptWindows(h, w, m, r)
        ord(yx) == yx[1] * (w - 2 * r) + yx[2]
    IN  [i \in 0 .. (Cardinality(K) - 1) |->
            CHOOSE yx \in K : Cardinality({ zz \in K : ord(zz) < ord(yx) }) = i]

\* chunk_inds, raveled: n windows of ws indices each
ChunkInds(wins, n, w, r) ==
    [i \in 0 .. (n * WinSize(r) - 1) |->
        WinInds(wins[i \div WinSize(r)][1], wins[i \div WinSize(r)][2], w, r)[i % WinSize(r)]]

\* np.repeat(a, reps).ravel(): every element of the raveled array, reps times
NpRepeat(a, len, reps) == [i \in 0 .. (len * reps - 1) |-> a[i \div reps]]

\* np.tile(a, reps).ravel() of an (n, ws) array: every row, reps times over
NpTile(a, n, ws, reps) ==
    [i \in 0 .. (n * ws * reps - 1) |-> a[(i \div (ws * reps)) * ws + (i % ws)]]

\* chunk_vals.ravel(): the (n, ws, ws) array of the windows' values; an entry
\* is named by its window and its place [j, k] in that window's matrix
ChunkVals(wins, n, r) ==
    [i \in 0 .. (n * WinSize(r) * WinSize(r) - 1) |->
        [win |-> wins[i \div (WinSize(r) * WinSize(r))],
         j |-> (i % (WinSize(r) * WinSize(r))) \div WinSize(r),
         k |-> i % WinSize(r)]]

\* lines 53-86: the (row, col, value) triples handed to coo_matrix, position
\* by position
NzEntries(h, w, m, r) ==
    LET wins == KeptWinSeq(h, w, m, r)
        n == Cardinality(KeptWindows(h, w, m, r))
        inds == ChunkInds(wins, n, w, r)
        rows == NpRepeat(inds, n * WinSize(r), WinSize(r))
        cols == NpTile(inds, n, WinSize(r), WinSize(r))
        vals == ChunkVals(wins, n, r)
    IN  { [row |-> rows[i], col |-> cols[i], val |-> vals[i]] :
            i \in 0 .. (n * WinSize(r) * WinSize(r) - 1) }

\* what makes the uncached computation raise: no window at all (as_strided on
\* a negative extent, or range() with a chunk size of 0), or a mask too small
\* for the image's raveled indices
LaplacianRaises(h, w, m, r) ==
    \/ h - 2 * r <= 0
    \/ w - 2 * r <= 0
    \/ m.given /\ m.shape[1] * m.shape[2] < h * w
    \/ KeptWindows(h, w, m, r) = {}

\* the sparse matrix, by what determines it: the image and the windows summed
LaplacianOf(img, h, w, m, eps, r) ==
    [img |-> img, eps |-> eps, wins |-> KeptWindows(h, w, m, r)]

NoLaplacian == [img |-> "none", eps |-> "none", wins |-> {}]

\* a mutant of CacheInsert: the size test off by one
CacheInsertOffByOne(c, key, L) ==
    IF Cardinality(DOMAIN c) <= CacheLimit THEN (key :> L) @@ c ELSE c

\* lines 91-93: cache the result unless the cache already holds 5
CacheInsert(c, key, L) ==
    IF Cardinality(DOMAIN c) < CacheLimit THEN (key :> L) @@ c ELSE c

\* a mutant of compute_laplacian: a cached matrix is returned only when it is
\* the one this image and this mask give
compute_laplacian_checks_contents(c, img, shape, m, eps, r) ==
    LET h == shape[1]
        w == shape[2]
        key == _cache_key(shape, m.shape, eps, r)
    IN  IF key \in DOMAIN c /\ c[key] = LaplacianOf(img, h, w, m, eps, r)
        THEN [status |-> "hit", L |-> c[key], cache |-> c]
        ELSE IF LaplacianRaises(h, w, m, r)
        THEN [status |-> "raise", L |-> NoLaplacian, cache |-> c]
        ELSE [status |-> "built",
              L |-> LaplacianOf(img, h, w, m, eps, r),
              cache |-> CacheInsert(c, key, LaplacianOf(img, h, w, m, eps, r))]

\* compute_laplacian(img, mask, eps, win_rad) on cache c: what it returns, or
\* that it raises, and the cache it leaves
compute_laplacian(c, img, shape, m, eps, r) ==
    LET h == shape[1]
        w == shape[2]
        key == _cache_key(shape, m.shape, eps, r)
    IN  IF key \in DOMAIN c
        THEN [status |-> "hit", L |-> c[key], cache |-> c]
        ELSE IF LaplacianRaises(h, w, m, r)
        THEN [status |-> "raise", L |-> NoLaplacian, cache |-> c]
        ELSE [status |-> "built",
              L |-> LaplacianOf(img, h, w, m, eps, r),
              cache |-> CacheInsert(c, key, LaplacianOf(img, h, w, m, eps, r))]

(* ------------------------ closed-form matting ------------------------ *)

\* the value spsolve fills its result with when the matrix is singular; it is
\* no number, and np.maximum / np.minimum hand it through
NaN == 999999

\* trimap_confidence=100.0
TrimapConfidence == 100

\* np.maximum(x, y), elementwise
Maximum(x, y) == IF x = NaN \/ y = NaN THEN NaN ELSE IF x >= y THEN x ELSE y

\* np.minimum(x, y), elementwise
Minimum(x, y) == IF x = NaN \/ y = NaN THEN NaN ELSE IF x <= y THEN x ELSE y

\* np.minimum(np.maximum(a, 0), 1), with 1.0 = 255
Clip01(a, h, w) == [p \in Pix(h, w) |-> Minimum(Maximum(a[p], 0), 255)]

\* consts_map = (trimap < 0.1) | (trimap > 0.9)
ConstsMap(t, h, w) ==
    { p \in Pix(h, w) : 10 * t[p] < 255 \/ 10 * t[p] > 9 * 255 }

\* confidence_map = trimap_confidence * consts_map
ConfidenceMap(t, h, w) ==
    [p \in Pix(h, w) |-> IF p \in ConstsMap(t, h, w) THEN TrimapConfidence ELSE 0]

\* full_to_unknown: the position of pixel p among the unknown pixels
FullToUnknown(p, unknown) == Cardinality({ q \in unknown : q < p })

\* a vector of any length read off NVary free entries, the last one repeated
Spread(free, i) == free[IF i < NVary - 1 THEN i ELSE NVary - 1]

\* what scipy.sparse.linalg.spsolve can do with the reduced system: return a
\* vector, raise, or (singular matrix) warn and return NaN everywhere.  With
\* no known pixel the system matrix is the whole Laplacian, whose rows sum to
\* zero: only then is the singular outcome offered.
SolveVals == {-40, 100, 300}

SolveOutcomes(unknown, h, w) ==
    { [kind |-> "ok", x |-> f] : f \in [0 .. (NVary - 1) -> SolveVals] }
    \cup { [kind |-> "raise", x |-> <<>>] }
    \cup (IF unknown = Pix(h, w) THEN { [kind |-> "singular", x |-> <<>>] } ELSE {})

\* a mutant of SolutionUnknown: a failed solve yields zeros
SolutionUnknownZeroFallback(prior, unknown, outcome) ==
    [p \in unknown |->
        IF outcome.kind = "ok" THEN Spread(outcome.x, FullToUnknown(p, unknown))
        ELSE IF outcome.kind = "singular" THEN NaN
        ELSE 0]

\* lines 59-64: solution_unknown, indexed here by the pixel it belongs to
SolutionUnknown(prior, unknown, outcome) ==
    [p \in unknown |->
        IF outcome.kind = "ok" THEN Spread(outcome.x, FullToUnknown(p, unknown))
        ELSE IF outcome.kind = "singular" THEN NaN
        ELSE prior[p]]

\* a mutant of SolutionFull: the solution is written over every pixel
SolutionFullOverwriteAll(prior, unknown, sol, h, w) ==
    [p \in Pix(h, w) |->
        IF p \in unknown THEN sol[p]
        ELSE sol[CHOOSE u \in unknown : TRUE]]

\* lines 67-68: the prior, with the unknown entries overwritten
SolutionFull(prior, unknown, sol, h, w) ==
    [p \in Pix(h, w) |-> IF p \in unknown THEN sol[p] ELSE prior[p]]

NoArray == <<>>

\* a mutant of closed_form_matting_with_prior: no early return
closed_form_matting_with_prior_no_early_return(c, img, shape, prior, prior_confidence, consts, outcome) ==
    LET h == shape[1]
        w == shape[2]
        unknown == Pix(h, w) \ consts
        lap == compute_laplacian(c, img, shape, MaskOf(h, w, unknown),
                                 EpsDefault, WinRadDefault)
    IN  IF lap.status = "raise"
        THEN [status |-> "raised", alpha |-> NoArray, cache |-> lap.cache,
              lapl |-> lap.status, solve |-> "none", L |-> lap.L]
        ELSE [status |-> "returned",
              alpha |-> Clip01(SolutionFull(prior, unknown,
                          SolutionUnknown(prior, unknown, outcome), h, w), h, w),
              cache |-> lap.cache, lapl |-> lap.status,
              solve |-> outcome.kind, L |-> lap.L]

\* closed_form_matting_with_prior(image, prior, prior_confidence, consts_map)
\* on cache c.  The right-hand side and the system matrix (lines 37-56), the
\* only readers of prior_confidence, are not computed: `outcome` is what the
\* sparse solve does with them if it is reached.
closed_form_matting_with_prior(c, img, shape, prior, prior_confidence, consts, outcome) ==
    LET h == shape[1]
        w == shape[2]
        unknown == Pix(h, w) \ consts
    IN  IF unknown = {}
        THEN [status |-> "returned", alpha |-> Clip01(prior, h, w), cache |-> c,
              lapl |-> "none", solve |-> "none", L |-> NoLaplacian]
        ELSE LET lap == compute_laplacian(c, img, shape, MaskOf(h, w, unknown),
                                          EpsDefault, WinRadDefault)
             IN  IF lap.status = "raise"
                 THEN [status |-> "raised", alpha |-> NoArray, cache |-> lap.cache,
                       lapl |-> lap.status, solve |-> "none", L |-> lap.L]
                 ELSE [status |-> "returned",
                       alpha |-> Clip01(SolutionFull(prior, unknown,
                                   SolutionUnknown(prior, unknown, outcome), h, w), h, w),
                       cache |-> lap.cache, lapl |-> lap.status,
                       solve |-> outcome.kind, L |-> lap.L]

\* closed_form_matting_with_trimap(image, trimap)
closed_form_matting_with_trimap(c, img, shape, t, outcome) ==
    closed_form_matting_with_prior(c, img, shape, t,
                                   ConfidenceMap(t, shape[1], shape[2]),
                                   ConstsMap(t, shape[1], shape[2]), outcome)

(* ------------------------------ state --------------------------------- *)

VARIABLES
    mask,        \* threshold mode: the 8-bit mask handed to the builder
    erode,       \* threshold mode: erode_structure_size
    thr,         \* threshold mode: <<foreground_threshold, background_threshold>>
    trimap,      \* threshold mode: the trimap built last
    prevTrimap,  \* threshold mode: the trimap that was fed back as a mask
    tpc,         \* threshold mode: "input" | "built" | "fed" | "rebuilt"
    prob,        \* entropy mode: the probability map (bytes, p = b/255)
    edges,       \* entropy mode: the edge pixels cv2.Canny returned
    etrimap,     \* entropy mode: the trimap returned
    epc,         \* entropy mode: "input" | "done"
    cache,       \* _laplacian_cache: cache key -> Laplacian
    lastLap,     \* what the last direct compute_laplacian call did
    call,        \* the last closed_form_matting_with_trimap call and its result
    ppc,         \* pipeline: the stage the running script has reached
    entry,       \* pipeline: "rgba" (process_matting.py) | "mask" (main.py)
    use_entropy, \* pipeline: use_entropy_trimap
    pin,         \* pipeline: <<shape, image, alpha channel / mask bytes>>
    trimap_alpha,\* pipeline: the trimap handed to the matting stage
    alpha_result,\* pipeline: alpha_result
    fellBack,    \* pipeline: the except branch of process_matting.py ran
    ticks,       \* pipeline: the percentages sent to the progress callback
    lap_shape,   \* Laplacian build: img.shape
    lap_rad,     \* Laplacian build: win_rad
    lap_mask,    \* Laplacian build: the mask argument
    nz,          \* Laplacian build: the triples handed to coo_matrix
    lap_pc       \* Laplacian build: "idle" | "input" | "built" | "raise" | "hit"

thresholdVars == <<mask, erode, thr, trimap, prevTrimap, tpc>>

entropyVars == <<prob, edges, etrimap, epc>>

pipeVars == <<ppc, entry, use_entropy, pin, trimap_alpha, alpha_result, fellBack, ticks>>

laplacianVars == <<lap_shape, lap_rad, lap_mask, nz, lap_pc>>

vars == <<thresholdVars, entropyVars, cache, lastLap, call, pipeVars, laplacianVars>>

EmptyCache == <<>>

NoCall == [shape |-> <<>>, img |-> "none", trimap |-> NoArray, L |-> NoLaplacian,
           status |-> "none", alpha |-> NoArray,
           lapl |-> "none", solve |-> "none", cacheChanged |-> FALSE]

MattingIdle ==
    /\ cache = EmptyCache
    /\ lastLap = "none"
    /\ call = NoCall

PipelineIdle ==
    /\ ppc = "idle"
    /\ entry = "none"
    /\ use_entropy = FALSE
    /\ pin = <<>>
    /\ trimap_alpha = NoArray
    /\ alpha_result = NoArray
    /\ fellBack = FALSE
    /\ ticks = <<>>

LaplacianIdle ==
    /\ lap_shape = <<3, 3, 3>>
    /\ lap_rad = WinRadDefault
    /\ lap_mask = NoMask
    /\ nz = {}
    /\ lap_pc = "idle"

Blank == [p \in Pix(GridH, GridW) |-> 128]

ThresholdIdle ==
    /\ mask = Blank
    /\ erode = 0
    /\ thr = <<240, 10>>
    /\ trimap = Blank
    /\ prevTrimap = Blank
    /\ tpc = "input"

EntropyIdle ==
    /\ prob = Blank
    /\ edges = {}
    /\ etrimap = Blank
    /\ epc = "input"

(* --------------- specification: threshold-mode builder ---------------- *)

MaskVals == {0, 128, 255}

\* masks made of two horizontal bands, each band repeating one row pattern
BandMasks ==
    { [p \in Pix(GridH, GridW) |->
          IF RowOf(p, GridW) < split THEN a[ColOf(p, GridW)]
                                     ELSE b[ColOf(p, GridW)]] :
        split \in 1 .. (GridH - 1),
        a \in [0 .. (GridW - 1) -> MaskVals],
        b \in [0 .. (GridW - 1) -> MaskVals] }

Thresholds == { <<240, 10>>, <<100, 200>> }

InitThreshold ==
    /\ EntropyIdle
    /\ MattingIdle
    /\ PipelineIdle
    /\ LaplacianIdle
    /\ mask \in BandMasks
    /\ erode \in 0 .. MaxErode
    /\ thr \in Thresholds
    /\ trimap = Blank
    /\ prevTrimap = Blank
    /\ tpc = "input"

\* alpha_matting_cutout_rembg, lines 38-50: build the trimap of the mask
BuildTrimap ==
    /\ tpc \in {"input", "fed"}
    /\ trimap' = ThresholdTrimap(mask, GridH, GridW, thr[1], thr[2], erode)
    /\ tpc' = IF tpc = "input" THEN "built" ELSE "rebuilt"
    /\ UNCHANGED <<mask, erode, thr, prevTrimap, entropyVars, cache, lastLap, laplacianVars, call, pipeVars>>

\* the caller hands the builder its own output as the next mask
FeedBack ==
    /\ tpc = "built"
    /\ mask' = trimap
    /\ prevTrimap' = trimap
    /\ tpc' = "fed"
    /\ UNCHANGED <<erode, thr, trimap, entropyVars, cache, lastLap, laplacianVars, call, pipeVars>>

NextThreshold == BuildTrimap \/ FeedBack

SpecThreshold == InitThreshold /\ [][NextThreshold]_vars

\* C4: in a trimap built with foreground_threshold >= background_threshold
\* and a square structure of side k >= 2, every value is 0, 128 or 255 and no
\* 255 pixel is 4-adjacent to a 0 pixel.
C4_NoFgBgContact ==
    (tpc \in {"built", "rebuilt"} /\ thr[1] >= thr[2] /\ erode >= 2) =>
        /\ \A p \in Pix(GridH, GridW) : trimap[p] \in {0, 128, 255}
        /\ \A p, q \in Pix(GridH, GridW) :
              Adjacent4(p, q, GridW) => ~(trimap[p] = 255 /\ trimap[q] = 0)

\* a trimap built under C4's conditions that holds both a 255 and a 0 pixel
C4_Witness ==
    /\ tpc = "built" /\ thr[1] >= thr[2] /\ erode >= 2
    /\ \E p, q \in Pix(GridH, GridW) : trimap[p] = 255 /\ trimap[q] = 0

\* C6 as stated: with thresholds 240/10 and a k x k structure, the builder
\* applied to its own output returns that output again.
C6_Idempotent ==
    (tpc = "rebuilt" /\ thr = <<240, 10>> /\ erode >= 1) => trimap = prevTrimap

\* C6 as amended: with thresholds 240/10, re-applying the builder to its own
\* output never enlarges a known region (a pixel labelled 255, or 0, by the
\* second pass had that label after the first), and the two trimaps are equal
\* when the structure is 1 x 1.
C6_KnownRegionsShrink ==
    (tpc = "rebuilt" /\ thr = <<240, 10>> /\ erode >= 1) =>
        /\ \A p \in Pix(GridH, GridW) :
              /\ trimap[p] = 255 => prevTrimap[p] = 255
              /\ trimap[p] = 0 => prevTrimap[p] = 0
        /\ erode = 1 => trimap = prevTrimap

\* a second pass that dropped a label the first pass had given
C6_Witness ==
    /\ tpc = "rebuilt" /\ thr = <<240, 10>> /\ erode >= 2
    /\ \E p \in Pix(GridH, GridW) : prevTrimap[p] = 255 /\ trimap[p] = 128

(* ---------------- specification: entropy-mode builder ----------------- *)

ProbVals == {0, 128, 255}

InitEntropy ==
    /\ ThresholdIdle
    /\ MattingIdle
    /\ PipelineIdle
    /\ LaplacianIdle
    /\ prob \in [Pix(GridH, GridW) -> ProbVals]
    /\ edges = {}
    /\ etrimap = Blank
    /\ epc = "input"

\* entropy_trimap(prob, band_ratio=0.01, mid_band=0.2)
EntropyTrimap ==
    /\ epc = "input"
    /\ \E e \in SUBSET CannyCandidates(EntropyLabel(prob, GridH, GridW), GridH, GridW) :
          /\ edges' = e
          /\ etrimap' = entropy_trimap(prob, GridH, GridW, e)
    /\ epc' = "done"
    /\ UNCHANGED <<prob, thresholdVars, cache, lastLap, laplacianVars, call, pipeVars>>

NextEntropy == EntropyTrimap

SpecEntropy == InitEntropy /\ [][NextEntropy]_vars

\* C5: every pixel of the dilated band around the label edges is 128 in the
\* returned trimap, and no returned 255 pixel is 4-adjacent to a returned 0.
C5_BandIsUnknown ==
    epc = "done" =>
        /\ \A p \in EntropyBand(edges, GridH, GridW) : etrimap[p] = 128
        /\ \A p, q \in Pix(GridH, GridW) :
              Adjacent4(p, q, GridW) => ~(etrimap[p] = 255 /\ etrimap[q] = 0)

(* ----------------- specification: the Laplacian cache ----------------- *)

Images == {"imgA", "imgB"}

EpsVals == {EpsDefault, "1e-5"}

WinRads == {WinRadDefault, 2}

\* image shapes (h, w, d) of the direct compute_laplacian calls
CacheShapes == { <<3, 3, 3>>, <<3, 4, 3>> }

\* the masks of the direct calls: none, all true, all false, and a 3 x 3 one
\* whatever the image
CacheMasks(shape) ==
    { NoMask,
      MaskOf(shape[1], shape[2], Pix(shape[1], shape[2])),
      MaskOf(shape[1], shape[2], {}),
      MaskOf(3, 3, Pix(3, 3)) }

InitCache ==
    /\ ThresholdIdle
    /\ EntropyIdle
    /\ MattingIdle
    /\ PipelineIdle
    /\ LaplacianIdle

\* a direct call compute_laplacian(img, mask, eps, win_rad)
ComputeLaplacian ==
    \E shape \in CacheShapes, img \in Images, eps \in EpsVals, r \in WinRads :
      \E m \in CacheMasks(shape) :
        LET res == compute_laplacian(cache, img, shape, m, eps, r)
        IN  /\ cache' = res.cache
            /\ lastLap' = res.status
            /\ UNCHANGED <<thresholdVars, entropyVars, call, pipeVars, laplacianVars>>

NextCache == ComputeLaplacian

SpecCache == InitCache /\ [][NextCache]_vars

\* C7: after any sequence of compute_laplacian calls the cache holds at most
\* 5 entries.
C7_CacheBounded == Cardinality(DOMAIN cache) <= 5

\* the cache is full and a further uncached Laplacian was computed
C7_Witness == Cardinality(DOMAIN cache) = 5 /\ lastLap = "built"

(* ------------- specification: matting calls and pipelines ------------ *)

\* image shapes (h, w, d) handed to the matting entry points; a 2 x 3 image
\* has no 3 x 3 window
Shapes == { <<3, 3, 3>>, <<2, 3, 3>> }

\* the arrays of the input family: NVary + 1 free values, the last repeated
FamilyArrays(h, w, vals) ==
    { [p \in Pix(h, w) |-> f[IF p < NVary THEN p ELSE NVary]] :
        f \in [0 .. NVary -> vals] }

\* trimap values of a direct call (floats, so not only bytes): below 0, 0,
\* 0.5, 1 and above 1
TrimapVals == {-20, 0, 128, 255, 300}

\* bytes of an RGBA alpha channel or of a mask
ByteVals == {0, 100, 255}

InitMatting ==
    /\ ThresholdIdle
    /\ EntropyIdle
    /\ MattingIdle
    /\ PipelineIdle
    /\ LaplacianIdle

Init == InitMatting

\* no script is running and the last results have been collected
Resting == ppc = "idle" /\ call = NoCall

CallRecord(shape, img, t, r, c) ==
    [shape |-> shape, img |-> img, trimap |-> t, L |-> r.L,
     status |-> r.status, alpha |-> r.alpha,
     lapl |-> r.lapl, solve |-> r.solve, cacheChanged |-> (r.cache # c)]

\* the host calls closed_form_matting_with_trimap(image, trimap) itself
DirectCall ==
    /\ Resting
    /\ \E shape \in Shapes, img \in Images :
        \E t \in FamilyArrays(shape[1], shape[2], TrimapVals) :
        \E o \in SolveOutcomes(Pix(shape[1], shape[2]) \ ConstsMap(t, shape[1], shape[2]),
                                shape[1], shape[2]) :
          LET r == closed_form_matting_with_trimap(cache, img, shape, t, o)
          IN  /\ call' = CallRecord(shape, img, t, r, cache)
              /\ cache' = r.cache
    /\ UNCHANGED <<thresholdVars, entropyVars, lastLap, laplacianVars, pipeVars>>

\* the host takes the results of the finished call or script; the module
\* globals, and with them the Laplacian cache, stay for the next request
Collect ==
    /\ \/ ppc \in {"done", "aborted"}
       \/ ppc = "idle" /\ call # NoCall
    /\ call' = NoCall
    /\ ppc' = "idle"
    /\ entry' = "none"
    /\ use_entropy' = FALSE
    /\ pin' = <<>>
    /\ trimap_alpha' = NoArray
    /\ alpha_result' = NoArray
    /\ fellBack' = FALSE
    /\ ticks' = <<>>
    /\ UNCHANGED <<thresholdVars, entropyVars, cache, lastLap, laplacianVars>>

\* process_matting.py, lines 58-80: the script starts on an RGBA buffer
RgbaStart ==
    /\ Resting
    /\ \E shape \in Shapes, img \in Images :
        \E a \in FamilyArrays(shape[1], shape[2], ByteVals) :
          pin' = <<shape, img, a>>
    /\ use_entropy' \in BOOLEAN
    /\ entry' = "rgba"
    /\ ticks' = <<10>>
    /\ ppc' = "extracted"
    /\ trimap_alpha' = NoArray
    /\ alpha_result' = NoArray
    /\ fellBack' = FALSE
    /\ UNCHANGED <<thresholdVars, entropyVars, cache, lastLap, laplacianVars, call>>

\* a mutant of RgbaTrimap: without use_entropy the alpha channel goes through
\* the threshold-mode builder
RgbaTrimapThresholded ==
    /\ ppc = "extracted" /\ entry = "rgba"
    /\ IF use_entropy
       THEN /\ \E e \in SUBSET CannyCandidates(
                          EntropyLabel(pin[3], pin[1][1], pin[1][2]),
                          pin[1][1], pin[1][2]) :
                 trimap_alpha' = entropy_trimap(pin[3], pin[1][1], pin[1][2], e)
            /\ ticks' = ticks \o <<20, 30>>
       ELSE /\ trimap_alpha' = ThresholdTrimap(pin[3], pin[1][1], pin[1][2],
                                               FgThresholdDefault, BgThresholdDefault,
                                               ErodeDefault)
            /\ ticks' = Append(ticks, 30)
    /\ ppc' = "matting"
    /\ UNCHANGED <<thresholdVars, entropyVars, cache, lastLap, laplacianVars, call,
                   entry, use_entropy, pin, alpha_result, fellBack>>

\* process_matting.py, lines 82-99: the trimap handed on, then tick 30
RgbaTrimap ==
    /\ ppc = "extracted" /\ entry = "rgba"
    /\ IF use_entropy
       THEN /\ \E e \in SUBSET CannyCandidates(
                          EntropyLabel(pin[3], pin[1][1], pin[1][2]),
                          pin[1][1], pin[1][2]) :
                 trimap_alpha' = entropy_trimap(pin[3], pin[1][1], pin[1][2], e)
            /\ ticks' = ticks \o <<20, 30>>
       ELSE /\ trimap_alpha' = pin[3]
            /\ ticks' = Append(ticks, 30)
    /\ ppc' = "matting"
    /\ UNCHANGED <<thresholdVars, entropyVars, cache, lastLap, laplacianVars, call,
                   entry, use_entropy, pin, alpha_result, fellBack>>

\* process_matting.py, lines 103-108 and 116-121: the matting call inside
\* the try; tick 70 when it returns, the fallback when it raises
RgbaMatting ==
    /\ ppc = "matting" /\ entry = "rgba"
    /\ \E o \in SolveOutcomes(Pix(pin[1][1], pin[1][2])
                                \ ConstsMap(trimap_alpha, pin[1][1], pin[1][2]),
                              pin[1][1], pin[1][2]) :
          LET r == closed_form_matting_with_trimap(cache, pin[2], pin[1], trimap_alpha, o)
          IN  /\ call' = CallRecord(pin[1], pin[2], trimap_alpha, r, cache)
              /\ cache' = r.cache
              /\ IF r.status = "returned"
                 THEN /\ alpha_result' = r.alpha
                      /\ ticks' = Append(ticks, 70)
                      /\ ppc' = "foreground"
                      /\ fellBack' = FALSE
                 ELSE /\ alpha_result' = trimap_alpha
                      /\ ticks' = ticks
                      /\ ppc' = "results"
                      /\ fellBack' = TRUE
    /\ UNCHANGED <<thresholdVars, entropyVars, lastLap, laplacianVars, entry, use_entropy,
                   pin, trimap_alpha>>

\* process_matting.py, lines 111-121: solve_foreground_background returns,
\* or raises into the same except branch
RgbaForeground ==
    /\ ppc = "foreground" /\ entry = "rgba"
    /\ \E raised \in BOOLEAN :
          /\ fellBack' = raised
          /\ alpha_result' = IF raised THEN trimap_alpha ELSE alpha_result
    /\ ppc' = "results"
    /\ UNCHANGED <<thresholdVars, entropyVars, cache, lastLap, laplacianVars, call, entry,
                   use_entropy, pin, trimap_alpha, ticks>>

\* a mutant of RgbaFinish: tick 90 is not sent
RgbaFinishWithout90 ==
    /\ ppc = "results" /\ entry = "rgba"
    /\ ticks' = Append(ticks, 100)
    /\ ppc' = "done"
    /\ UNCHANGED <<thresholdVars, entropyVars, cache, lastLap, laplacianVars, call, entry,
                   use_entropy, pin, trimap_alpha, alpha_result, fellBack>>

\* process_matting.py, lines 123-132: ticks 90 and 100
RgbaFinish ==
    /\ ppc = "results" /\ entry = "rgba"
    /\ ticks' = ticks \o <<90, 100>>
    /\ ppc' = "done"
    /\ UNCHANGED <<thresholdVars, entropyVars, cache, lastLap, laplacianVars, call, entry,
                   use_entropy, pin, trimap_alpha, alpha_result, fellBack>>

\* main.py, lines 96-119: process_alpha_matting starts on image and mask
MaskStart ==
    /\ Resting
    /\ \E shape \in Shapes, img \in Images :
        \E a \in FamilyArrays(shape[1], shape[2], ByteVals) :
          pin' = <<shape, img, a>>
    /\ use_entropy' = FALSE
    /\ entry' = "mask"
    /\ ticks' = <<5>>
    /\ ppc' = "extracted"
    /\ trimap_alpha' = NoArray
    /\ alpha_result' = NoArray
    /\ fellBack' = FALSE
    /\ UNCHANGED <<thresholdVars, entropyVars, cache, lastLap, laplacianVars, call>>

\* main.py, lines 122-128 and 32-67: alpha_matting_cutout_rembg builds the
\* trimap (240, 10, 10) and normalises; ticks 10, 30, 50
MaskTrimap ==
    /\ ppc = "extracted" /\ entry = "mask"
    /\ trimap_alpha' = ThresholdTrimap(pin[3], pin[1][1], pin[1][2],
                                       FgThresholdDefault, BgThresholdDefault,
                                       ErodeDefault)
    /\ ticks' = ticks \o <<10, 30, 50>>
    /\ ppc' = "matting"
    /\ UNCHANGED <<thresholdVars, entropyVars, cache, lastLap, laplacianVars, call,
                   entry, use_entropy, pin, alpha_result, fellBack>>

\* main.py, lines 70-75: the matting call, not guarded; tick 70
MaskMatting ==
    /\ ppc = "matting" /\ entry = "mask"
    /\ \E o \in SolveOutcomes(Pix(pin[1][1], pin[1][2])
                                \ ConstsMap(trimap_alpha, pin[1][1], pin[1][2]),
                              pin[1][1], pin[1][2]) :
          LET r == closed_form_matting_with_trimap(cache, pin[2], pin[1], trimap_alpha, o)
          IN  /\ call' = CallRecord(pin[1], pin[2], trimap_alpha, r, cache)
              /\ cache' = r.cache
              /\ IF r.status = "returned"
                 THEN /\ alpha_result' = r.alpha
                      /\ ticks' = Append(ticks, 70)
                      /\ ppc' = "foreground"
                 ELSE /\ alpha_result' = alpha_result
                      /\ ticks' = ticks
                      /\ ppc' = "aborted"
    /\ UNCHANGED <<thresholdVars, entropyVars, lastLap, laplacianVars, entry, use_entropy,
                   pin, trimap_alpha, fellBack>>

\* main.py, lines 78-93: solve_foreground_background, not guarded; tick 85
MaskForeground ==
    /\ ppc = "foreground" /\ entry = "mask"
    /\ \E raised \in BOOLEAN :
          /\ ppc' = IF raised THEN "aborted" ELSE "results"
          /\ ticks' = IF raised THEN ticks ELSE Append(ticks, 85)
    /\ UNCHANGED <<thresholdVars, entropyVars, cache, lastLap, laplacianVars, call, entry,
                   use_entropy, pin, trimap_alpha, alpha_result, fellBack>>

\* main.py, lines 130-140: ticks 95 and 100
MaskFinish ==
    /\ ppc = "results" /\ entry = "mask"
    /\ ticks' = ticks \o <<95, 100>>
    /\ ppc' = "done"
    /\ UNCHANGED <<thresholdVars, entropyVars, cache, lastLap, laplacianVars, call, entry,
                   use_entropy, pin, trimap_alpha, alpha_result, fellBack>>

Next ==
    \/ DirectCall
    \/ Collect
    \/ RgbaStart
    \/ RgbaTrimap
    \/ RgbaMatting
    \/ RgbaForeground
    \/ RgbaFinish
    \/ MaskStart
    \/ MaskTrimap
    \/ MaskMatting
    \/ MaskForeground
    \/ MaskFinish

Spec == Init /\ [][Next]_vars

\* x is a number of [0, 1]
InUnit(x) == x # NaN /\ x >= 0 /\ x <= 255

AllKnown(t, shape) == ConstsMap(t, shape[1], shape[2]) = Pix(shape[1], shape[2])

\* C1: every entry of the alpha a closed-form call returns lies in [0, 1],
\* whatever the sparse solve did, and so does the alpha the process_matting
\* script is left with after its except branch.
C1_AlphaInUnit ==
    /\ call.status = "returned" =>
          \A p \in Pix(call.shape[1], call.shape[2]) : InUnit(call.alpha[p])
    /\ (entry = "rgba" /\ fellBack) =>
          \A p \in Pix(pin[1][1], pin[1][2]) : InUnit(alpha_result[p])

\* C2: in the alpha a closed-form call returns, a pixel whose trimap value is
\* 1 has alpha >= 1 - 1/1000 and a pixel whose trimap value is 0 has
\* alpha <= 1/1000, whatever the solve returned for the unknown pixels.
C2_KnownPixelsKept ==
    call.status = "returned" =>
        \A p \in Pix(call.shape[1], call.shape[2]) :
            /\ call.trimap[p] = 255 =>
                  call.alpha[p] # NaN /\ 1000 * (255 - call.alpha[p]) <= 255
            /\ call.trimap[p] = 0 =>
                  call.alpha[p] # NaN /\ 1000 * call.alpha[p] <= 255

\* a returned call whose solve ran, with a foreground, a background and an
\* unknown pixel whose solved value is neither 0 nor 1
C2_Witness ==
    /\ call.status = "returned" /\ call.solve \in {"ok", "singular"}
    /\ \E p, q, u \in Pix(call.shape[1], call.shape[2]) :
          /\ call.trimap[p] = 255
          /\ call.trimap[q] = 0
          /\ call.trimap[u] = 128 /\ call.alpha[u] = 100

\* C3: a closed-form call on a trimap with no unknown pixel returns the
\* trimap clamped to [0, 1] at every pixel, computes no Laplacian, runs no
\* solve and leaves the Laplacian cache as it was.
C3_AllKnownReturnsTrimap ==
    (call.status # "none" /\ AllKnown(call.trimap, call.shape)) =>
        /\ call.status = "returned"
        /\ \A p \in Pix(call.shape[1], call.shape[2]) :
              call.alpha[p] = (IF call.trimap[p] < 0 THEN 0
                               ELSE IF call.trimap[p] > 255 THEN 255
                               ELSE call.trimap[p])
        /\ call.lapl = "none"
        /\ call.solve = "none"
        /\ ~call.cacheChanged

\* an all-known call, with values to clamp, made while the cache holds a
\* Laplacian
C3_Witness ==
    /\ call.status = "returned" /\ AllKnown(call.trimap, call.shape)
    /\ cache # EmptyCache
    /\ \E p, q \in Pix(call.shape[1], call.shape[2]) :
          call.trimap[p] = 300 /\ call.trimap[q] = -20

\* C8: when the sparse solve raises, the call still returns, and the alpha
\* equals the trimap clipped to [0, 1] at every pixel, known or unknown.
C8_SolveFailureReturnsPrior ==
    call.solve = "raise" =>
        /\ call.status = "returned"
        /\ \A p \in Pix(call.shape[1], call.shape[2]) :
              call.alpha[p] = (IF call.trimap[p] < 0 THEN 0
                               ELSE IF call.trimap[p] > 255 THEN 255
                               ELSE call.trimap[p])

\* a call whose solve raised, with an unknown pixel and a known pixel above 1
C8_Witness ==
    /\ call.solve = "raise"
    /\ \E u, p \in Pix(call.shape[1], call.shape[2]) :
          call.trimap[u] = 128 /\ call.trimap[p] = 300

\* C9 as stated: a completed run has sent exactly 5, 10, 30, 70, 90, 100.
C9_TicksAsListed == ppc = "done" => ticks = <<5, 10, 30, 70, 90, 100>>

\* C9 as amended: the ticks of a completed run are strictly increasing and
\* end with 100; process_matting.py sends 10, then 20 only with use_entropy,
\* 30, then 70 only if the matting call returned, 90, 100; and
\* process_alpha_matting sends 5, 10, 30, 50, 70, 85, 95, 100.
C9_TickSequences ==
    ppc = "done" =>
        /\ \A i \in 1 .. (Len(ticks) - 1) : ticks[i] < ticks[i + 1]
        /\ ticks[Len(ticks)] = 100
        /\ entry = "rgba" =>
              ticks = <<10>> \o (IF use_entropy THEN <<20>> ELSE <<>>) \o <<30>>
                      \o (IF call.status = "returned" THEN <<70>> ELSE <<>>)
                      \o <<90, 100>>
        /\ entry = "mask" => ticks = <<5, 10, 30, 50, 70, 85, 95, 100>>

\* a completed process_matting.py run with use_entropy whose matting call
\* raised
C9_Witness ==
    /\ ppc = "done" /\ entry = "rgba" /\ use_entropy /\ fellBack
    /\ call.status = "raised"
    /\ ticks = <<10, 20, 30, 90, 100>>

\* C10 as stated: the trimap process_matting.py hands to the matting call
\* holds only the values 0, 128/255 and 1, with or without use_entropy.
C10_TrimapThreeValued ==
    (entry = "rgba" /\ ppc \in {"matting", "foreground", "results", "done"}) =>
        \A p \in Pix(pin[1][1], pin[1][2]) : trimap_alpha[p] \in {0, 128, 255}

\* C10 as amended: without use_entropy the trimap handed to the matting call
\* is the decoded alpha channel itself, unchanged; with use_entropy it is the
\* entropy-mode trimap: 1 where p >= 0.7, 0 where p <= 0.3, 128/255 elsewhere.
C10_TrimapPassedThrough ==
    (entry = "rgba" /\ ppc \in {"matting", "foreground", "results", "done"}) =>
        \A p \in Pix(pin[1][1], pin[1][2]) :
            /\ ~use_entropy => trimap_alpha[p] = pin[3][p]
            /\ use_entropy =>
                  trimap_alpha[p] = (IF 10 * pin[3][p] >= 7 * 255 THEN 255
                                     ELSE IF 10 * pin[3][p] <= 3 * 255 THEN 0
                                     ELSE 128)

\* a run without use_entropy whose matting call got a value that is none of
\* the three
C10_Witness ==
    /\ entry = "rgba" /\ ~use_entropy /\ ppc = "foreground"
    /\ call.status = "returned"
    /\ \E p \in Pix(pin[1][1], pin[1][2]) : call.trimap[p] = 100

(* ------- specification: matting calls that share the cache ------------ *)

\* image shapes of the successive calls: a 3 x 5 image has three windows, and
\* a mask at its left edge leaves the rightmost one out
SharedShapes == { <<3, 3, 3>>, <<3, 5, 3>> }

\* trimap values of the successive calls: background and unknown
SharedTrimapVals == {0, 128}

InitShared ==
    /\ ThresholdIdle
    /\ EntropyIdle
    /\ MattingIdle
    /\ PipelineIdle
    /\ LaplacianIdle

\* closed_form_matting_with_trimap(image, trimap), called once the results of
\* the call before have been taken
MattingCall ==
    /\ Resting
    /\ \E shape \in SharedShapes, img \in Images :
        \E t \in FamilyArrays(shape[1], shape[2], SharedTrimapVals) :
        \E o \in SolveOutcomes(Pix(shape[1], shape[2]) \ ConstsMap(t, shape[1], shape[2]),
                                shape[1], shape[2]) :
          LET r == closed_form_matting_with_trimap(cache, img, shape, t, o)
          IN  /\ call' = CallRecord(shape, img, t, r, cache)
              /\ cache' = r.cache
    /\ UNCHANGED <<thresholdVars, entropyVars, lastLap, laplacianVars, pipeVars>>

NextShared ==
    \/ MattingCall
    \/ Collect

SpecShared == InitShared /\ [][NextShared]_vars

\* the unknown pixels of the recorded call: the mask it hands to
\* compute_laplacian
UnknownOf(c) == Pix(c.shape[1], c.shape[2]) \ ConstsMap(c.trimap, c.shape[1], c.shape[2])

\* the Laplacian the recorded call's own image and mask give
OwnLaplacian(c) ==
    LaplacianOf(c.img, c.shape[1], c.shape[2],
                MaskOf(c.shape[1], c.shape[2], UnknownOf(c)),
                EpsDefault, WinRadDefault)

\* C11: the cache is keyed on (image shape, mask shape, eps, win_rad) only.
\* A matting call with an unknown pixel whose key is in the cache solves with
\* the matrix found there and leaves the cache alone, whatever its own image
\* and unknown region are; a call whose key is not in a cache of fewer than 5
\* entries stores the matrix of its own image and mask under that key; and no
\* call replaces an entry.  So the matrix found is the one the earlier call of that size built
\* from its image.
C11_SameShapeSharesLaplacian ==
    [][ call' # NoCall =>
          LET key == <<call'.shape, <<call'.shape[1], call'.shape[2]>>,
                       EpsDefault, WinRadDefault>>
          IN  /\ \A k \in DOMAIN cache : k \in DOMAIN cache' /\ cache'[k] = cache[k]
              /\ (UnknownOf(call') # {} /\ key \in DOMAIN cache) =>
                    /\ call'.lapl = "hit"
                    /\ call'.L = cache[key]
                    /\ cache' = cache
              /\ (/\ UnknownOf(call') # {}
                  /\ key \notin DOMAIN cache
                  /\ Cardinality(DOMAIN cache) < 5) =>
                    /\ call'.lapl = "built"
                    /\ call'.L = OwnLaplacian(call')
                    /\ cache' = (key :> OwnLaplacian(call')) @@ cache ]_vars

\* a call was solved with a cached matrix that was built from another image
\* and from the windows of another unknown region
C11_Witness ==
    /\ call.status = "returned" /\ call.lapl = "hit" /\ call.solve = "ok"
    /\ call.L.img # call.img
    /\ call.L.wins # OwnLaplacian(call).wins

(* ------------ specification: one uncached Laplacian build ------------- *)

\* <<img.shape, win_rad, most true pixels of a mask>> of the builds: three and
\* four 3 x 3 windows, and four 5 x 5 windows
WindowCases ==
    { << <<3, 5, 3>>, 1, 2 >>, << <<4, 4, 3>>, 1, 2 >>, << <<5, 8, 3>>, 2, 1 >> }

\* the mask arguments: none, and the masks of the image's shape that are true
\* on at most `most` pixels (one or two)
WindowMasks(h, w, most) ==
    { NoMask, MaskOf(h, w, {}) }
    \cup { MaskOf(h, w, {pq[1], pq[2]}) :
             pq \in { xy \in Pix(h, w) \X Pix(h, w) : most > 1 \/ xy[1] = xy[2] } }

InitWindows ==
    /\ ThresholdIdle
    /\ EntropyIdle
    /\ MattingIdle
    /\ PipelineIdle
    /\ \E c \in WindowCases :
          /\ lap_shape = c[1]
          /\ lap_rad = c[2]
          /\ lap_mask \in WindowMasks(c[1][1], c[1][2], c[3])
    /\ nz = {}
    /\ lap_pc = "input"

\* compute_laplacian(img, mask, win_rad=r) on the empty cache
BuildLaplacian ==
    /\ lap_pc = "input"
    /\ \E img \in Images :
          LET res == compute_laplacian(cache, img, lap_shape, lap_mask,
                                       EpsDefault, lap_rad)
          IN  /\ cache' = res.cache
              /\ lastLap' = res.status
              /\ lap_pc' = res.status
              /\ nz' = IF res.status = "built"
                        THEN NzEntries(lap_shape[1], lap_shape[2], lap_mask, lap_rad)
                        ELSE {}
    /\ UNCHANGED <<thresholdVars, entropyVars, call, pipeVars,
                   lap_shape, lap_rad, lap_mask>>

NextWindows == BuildLaplacian

SpecWindows == InitWindows /\ [][NextWindows]_vars

\* the windows that have a triple in nz
ScatteredWindows == { e.val.win : e \in nz }

\* C12: an uncached build with a refinement mask M keeps every window that
\* holds a pixel of M; every kept window contributes the whole cartesian
\* product of its indices, the pair (inds[j], inds[k]) with the value at
\* place [j, k]; and for every pixel u of M the triples of row u are those of
\* the build without a mask, so the rows the reduced solve reads are the rows
\* of the unrestricted Laplacian.
C12_MaskedRowsComplete ==
    (lap_pc = "built" /\ lap_mask.given) =>
        LET h == lap_shape[1]
            w == lap_shape[2]
            full == NzEntries(h, w, NoMask, lap_rad)
        IN  /\ \A yx \in Windows(h, w, lap_rad) :
                  WinPix(yx[1], yx[2], w, lap_rad) \cap lap_mask.on # {}
                      => yx \in ScatteredWindows
            /\ \A e \in nz :
                  /\ e.row = WinInds(e.val.win[1], e.val.win[2], w, lap_rad)[e.val.j]
                  /\ e.col = WinInds(e.val.win[1], e.val.win[2], w, lap_rad)[e.val.k]
            /\ \A yx \in ScatteredWindows :
                  \A j, k \in 0 .. (WinSize(lap_rad) - 1) :
                      [row |-> WinInds(yx[1], yx[2], w, lap_rad)[j],
                       col |-> WinInds(yx[1], yx[2], w, lap_rad)[k],
                       val |-> [win |-> yx, j |-> j, k |-> k]] \in nz
            /\ \A u \in lap_mask.on :
                  { e \in nz : e.row = u } = { e \in full : e.row = u }

\* a build whose mask left a window out
C12_Witness ==
    /\ lap_pc = "built" /\ lap_mask.given /\ lap_mask.on # {}
    /\ ScatteredWindows # Windows(lap_shape[1], lap_shape[2], lap_rad)

====
